---------------------------- MODULE Spec2Model ----------------------------
(***************************************************************************)
(* A model of process_ris.py: the RIS record parser (parse_ris_file), the  *)
(* decision and reason decoder (parse_n1) and the table builder            *)
(* (build_dataframe).                                                      *)
(*                                                                         *)
(* A Python str is modelled as a sequence of one-character strings, so     *)
(* that slicing, stripping, searching, splitting, joining and ordering are *)
(* computed as the code computes them.                                     *)
(***************************************************************************)
EXTENDS Integers, Sequences, FiniteSets, TLC

VARIABLES
    pc,          \* position in the program
    consumed,    \* the raw lines read from the file so far (history)
    record,      \* parse_ris_file: the current-record accumulator
    records,     \* parse_ris_file: the emitted records / build_dataframe's argument
    all_reasons, \* build_dataframe: the global reason set
    parsed_rows, \* build_dataframe: the rows built so far
    df,          \* build_dataframe: the table
    todo,        \* build_dataframe: the labels of sorted(all_reasons) still to add
    call,        \* which call of build_dataframe is running (1 or 2)
    given,       \* the record list handed to the first call
    perm,        \* the permutation applied to it for the second call
    df1,         \* the table the first call returned
    n1_values,   \* parse_n1: the argument
    gen,         \* how n1_values was put together (history)
    text,        \* parse_n1: the joined note text
    decisions,   \* parse_n1: the decoded decision mapping
    rita,        \* parse_n1: first verdict
    jules,       \* parse_n1: second verdict
    agreement,   \* parse_n1: agreement flag
    reasons      \* parse_n1: the exclusion reasons

vars == <<pc, consumed, record, records, all_reasons, parsed_rows, df, todo,
          call, given, perm, df1, n1_values, gen, text, decisions, rita,
          jules, agreement, reasons>>

parseVars == <<consumed, record, records>>
buildVars == <<all_reasons, parsed_rows, df, todo>>
callVars  == <<call, given, perm, df1>>
n1Vars    == <<n1_values, gen, text, decisions, rita, jules, agreement, reasons>>

-----------------------------------------------------------------------------
(* Bounds of the model.                                                    *)

MaxLines == 4      \* lines read from one file
MaxRecords == 3    \* records handed to build_dataframe directly
MaxEntries == 2    \* key/value entries in one generated decision payload

-----------------------------------------------------------------------------
(* Characters and strings.                                                 *)

\* The characters of the model in ascending code-point order: Python
\* compares str values code point by code point.
CodePoints ==
    <<"\t", "\n", " ", "\"", ",", "-",
      "0", "1", "2", "3", "4", "5", "6", "7", "8", "9", ":", ";", "=", ">",
      "A", "B", "C", "D", "E", "F", "G", "H", "I", "J", "K", "L", "M",
      "N", "O", "P", "Q", "R", "S", "T", "U", "V", "W", "X", "Y", "Z", "_",
      "a", "b", "c", "d", "e", "f", "g", "h", "i", "j", "k", "l", "m",
      "n", "o", "p", "q", "r", "s", "t", "u", "v", "w", "x", "y", "z",
      "{", "|", "}">>

Ord(c) == CHOOSE k \in 1..Len(CodePoints) : CodePoints[k] = c

Min(a, b) == IF a < b THEN a ELSE b

\* s[a:b] and s[a:] of Python (0-based, clipped to the string).
Slice(s, a, b) == SubSeq(s, Min(a, Len(s)) + 1, Min(b, Len(s)))
SliceFrom(s, a) == SubSeq(s, Min(a, Len(s)) + 1, Len(s))

IsSpace(c) == c \in {" ", "\t", "\n"}

\* str.strip(): leading and trailing whitespace removed.
Strip(s) ==
    LET keep == {k \in 1..Len(s) : ~IsSpace(s[k])}
    IN  IF keep = {} THEN <<>>
        ELSE SubSeq(s, CHOOSE k \in keep : \A j \in keep : k <= j,
                       CHOOSE k \in keep : \A j \in keep : k >= j)

\* str.rstrip("\n"): trailing newlines removed.
RStripNewline(s) ==
    LET keep == {k \in 1..Len(s) : s[k] # "\n"}
    IN  IF keep = {} THEN <<>>
        ELSE SubSeq(s, 1, CHOOSE k \in keep : \A j \in keep : k >= j)

\* str.startswith(p)
StartsWith(s, p) == Len(s) >= Len(p) /\ SubSeq(s, 1, Len(p)) = p

\* p occurs in s at 1-based position k
OccursAt(s, p, k) == k + Len(p) - 1 <= Len(s) /\ SubSeq(s, k, k + Len(p) - 1) = p

\* "p in s" for two str values
Contains(s, p) == \E k \in 1..(Len(s) + 1) : OccursAt(s, p, k)

\* sep.join(parts)
RECURSIVE Join(_, _)
Join(sep, parts) ==
    IF parts = <<>> THEN <<>>
    ELSE IF Len(parts) = 1 THEN parts[1]
    ELSE parts[1] \o sep \o Join(sep, Tail(parts))

\* a < b for two str values
RECURSIVE StrLess(_, _)
StrLess(a, b) ==
    IF b = <<>> THEN FALSE
    ELSE IF a = <<>> THEN TRUE
    ELSE IF a[1] = b[1] THEN StrLess(Tail(a), Tail(b))
    ELSE Ord(a[1]) < Ord(b[1])

S_TI == <<"T", "I">>
S_T2 == <<"T", "2">>
S_Y2 == <<"Y", "2">>
S_Y3 == <<"Y", "3">>
S_AB == <<"A", "B">>
S_DO == <<"D", "O">>
S_AN == <<"A", "N">>
S_AU == <<"A", "U">>
S_N1 == <<"N", "1">>
S_FirstAuthor == <<"F", "i", "r", "s", "t", " ", "A", "u", "t", "h", "o", "r">>
S_OtherAuthors == <<"O", "t", "h", "e", "r", " ", "A", "u", "t", "h", "o", "r", "s">>
S_RitaDecision == <<"R", "i", "t", "a", " ", "D", "e", "c", "i", "s", "i", "o", "n">>
S_JulesDecision == <<"J", "u", "l", "e", "s", " ", "D", "e", "c", "i", "s", "i", "o", "n">>
S_Agreement == <<"A", "g", "r", "e", "e", "m", "e", "n", "t">>
S_reasons == <<"_", "r", "e", "a", "s", "o", "n", "s">>
S_Rita == <<"R", "i", "t", "a">>
S_Jules == <<"J", "u", "l", "e", "s">>
S_Yes == <<"Y", "e", "s">>
S_No == <<"N", "o">>
S_ER == <<"E", "R", " ", " ", "-">>
S_Hyphen == <<"-">>
S_Bar == <<" ", "|", " ">>
S_Semi == <<";", " ">>
S_Space == <<" ">>
S_Arrow == <<"=", ">">>
S_Colon == <<":">>
S_INC == <<"R", "A", "Y", "Y", "A", "N", "-", "I", "N", "C", "L", "U", "S", "I", "O", "N", ":">>
S_EXC == <<"R", "A", "Y", "Y", "A", "N", "-", "E", "X", "C", "L", "U", "S", "I", "O", "N", "-", "R", "E", "A", "S", "O", "N", "S", ":">>
S_null == <<"n", "u", "l", "l">>

-----------------------------------------------------------------------------
(* parse_ris_file                                                          *)

\* defaultdict(list) with no key
EmptyRecord == [t \in {} |-> <<>>]

\* record[tag].append(value)
AppendValue(rec, tag, value) ==
    [t \in DOMAIN rec \cup {tag} |->
        IF t = tag
        THEN (IF tag \in DOMAIN rec THEN Append(rec[tag], value) ELSE <<value>>)
        ELSE rec[t]]

\* A looser test of the delimiter: a hyphen anywhere in line[2:6].
HasHyphen(line) == "-" \in {Slice(line, 2, 6)[k] : k \in 1..Len(Slice(line, 2, 6))}

\* line[2:6].strip() == "-"
IsFieldLine(line) == Strip(Slice(line, 2, 6)) = S_Hyphen

\* line.startswith("ER  -")
IsEndMarker(line) == StartsWith(line, S_ER)

\* The raw lines a file is made of. Every line but the last of a file ends
\* with a newline.
NL == <<"\n">>
RawLines ==
    { <<"T", "I", " ", " ", "-", " ", "A">> \o NL,         \* field
      <<"A", "U", " ", " ", "-", " ", "X">> \o NL,         \* field
      <<"A", "U", " ", " ", "-", " ", "Y", " ">> \o NL,    \* field, padded value
      <<"N", "1", " ", " ", "-", " ">> \o S_EXC
          \o <<" ", "b", ",", " ", "a">> \o NL,              \* note with reasons
      <<"E", "R", " ", " ", "-", " ">> \o NL,              \* end marker
      <<"E", "R", " ", " ", "-">>,                         \* end marker, last line
      NL,                                                  \* blank
      <<"T", "I", " ", "-", " ", "B">> \o NL,              \* delimiter cut by value
      <<"A", "B">> \o NL,                                  \* no delimiter at all
      <<"E", "R", " ", "-", " ", " ", "D">> \o NL }        \* tag ER, not a marker

\* The file has more lines only after a line that ended with a newline.
EndsWithNewline(lines) ==
    IF lines = <<>> THEN TRUE
    ELSE LET last == lines[Len(lines)] IN last # <<>> /\ last[Len(last)] = "\n"

\* One iteration of the loop over the file.
ReadLine(raw) ==
    /\ pc = "read"
    /\ Len(consumed) < MaxLines
    /\ EndsWithNewline(consumed)
    /\ consumed' = Append(consumed, raw)
    /\ LET line == RStripNewline(raw)
       IN  IF line = <<>> THEN
               UNCHANGED <<record, records>>
           ELSE IF IsEndMarker(line) THEN
               /\ records' = IF record # EmptyRecord THEN Append(records, record)
                             ELSE records
               /\ record' = EmptyRecord
           ELSE IF IsFieldLine(line) THEN
               /\ record' = AppendValue(record, Slice(line, 0, 2), Strip(SliceFrom(line, 6)))
               /\ UNCHANGED records
           ELSE
               UNCHANGED <<record, records>>
    /\ UNCHANGED <<pc, buildVars, callVars, n1Vars>>

\* What a version that also seals the trailing record at the end of the
\* file would return.
ReturnedWithTrailing(recs, rec) == IF rec # EmptyRecord THEN Append(recs, rec) ELSE recs

\* return records: the accumulator is not looked at.
Returned(recs, rec) == recs

\* End of file: parse_ris_file returns records and main hands them to
\* build_dataframe.
EndOfFile ==
    /\ pc = "read"
    /\ pc' = "build"
    /\ records' = Returned(records, record)
    /\ given' = records'
    /\ UNCHANGED <<consumed, record, buildVars, call, perm, df1, n1Vars>>

-----------------------------------------------------------------------------
(* Python values that reach a table cell: a str, None, or a list of str.   *)

StrV(s) == [k |-> "str", v |-> s]
NoneV == [k |-> "None", v |-> <<>>]
ListV(l) == [k |-> "list", v |-> l]

\* bool(x) of a str or None
Truthy(x) == x.k = "str" /\ x.v # <<>>

-----------------------------------------------------------------------------
(* parse_n1                                                                *)

EmptyMap == [t \in {} |-> NoneV]

\* The position after the whitespace that starts at k (the regex \s*).
RECURSIVE SkipSpace(_, _)
SkipSpace(s, k) ==
    IF k <= Len(s) /\ IsSpace(s[k]) THEN SkipSpace(s, k + 1) ELSE k

\* The first position at or after k that holds character c, or 0.
FirstAt(s, c, k) ==
    LET hits == {j \in k..Len(s) : s[j] = c}
    IN  IF hits = {} THEN 0 ELSE CHOOSE j \in hits : \A h \in hits : j <= h

\* RAYYAN-INCLUSION:\s*({.*?}) tried at position k: the group, when it matches.
InclusionAt(s, k) ==
    IF ~OccursAt(s, S_INC, k) THEN [found |-> FALSE, group |-> <<>>]
    ELSE LET open == SkipSpace(s, k + Len(S_INC))
             close == IF open <= Len(s) /\ s[open] = "{"
                      THEN FirstAt(s, "}", open + 1) ELSE 0
         IN  IF close = 0 \/ (\E j \in open..close : s[j] = "\n")
             THEN [found |-> FALSE, group |-> <<>>]
             ELSE [found |-> TRUE, group |-> SubSeq(s, open, close)]

\* re.search(r"RAYYAN-INCLUSION:\s*({.*?})", text): the leftmost match.
SearchInclusion(s) ==
    LET hits == {k \in 1..Len(s) : InclusionAt(s, k).found}
    IN  IF hits = {} THEN [found |-> FALSE, group |-> <<>>]
        ELSE InclusionAt(s, CHOOSE k \in hits : \A h \in hits : k <= h)

\* Only the first "=>" replaced.
RECURSIVE ReplaceFirstArrow(_)
ReplaceFirstArrow(s) ==
    IF s = <<>> THEN <<>>
    ELSE IF StartsWith(s, S_Arrow) THEN S_Colon \o SubSeq(s, 3, Len(s))
    ELSE <<s[1]>> \o ReplaceFirstArrow(Tail(s))

\* str.replace("=>", ":")
RECURSIVE ReplaceArrow(_)
ReplaceArrow(s) ==
    IF s = <<>> THEN <<>>
    ELSE IF StartsWith(s, S_Arrow) THEN S_Colon \o ReplaceArrow(SubSeq(s, 3, Len(s)))
    ELSE <<s[1]>> \o ReplaceArrow(Tail(s))

\* json.loads on the captured group. The decoder covers what the texts of
\* this model are made of: an object whose keys are strings without escapes
\* and whose values are such strings or null; anything else is a decode
\* error here.
JsonFail == [ok |-> FALSE, val |-> NoneV, next |-> 0]

JsonString(s, k) ==
    IF ~(k <= Len(s) /\ s[k] = "\"") THEN JsonFail
    ELSE LET close == FirstAt(s, "\"", k + 1)
         IN  IF close = 0 \/ (\E j \in (k + 1)..(close - 1) : s[j] \in {"\n", "\t"})
             THEN JsonFail
             ELSE [ok |-> TRUE, val |-> StrV(SubSeq(s, k + 1, close - 1)),
                   next |-> close + 1]

JsonValue(s, k) ==
    IF k <= Len(s) /\ s[k] = "\"" THEN JsonString(s, k)
    ELSE IF OccursAt(s, S_null, k)
    THEN [ok |-> TRUE, val |-> NoneV, next |-> k + Len(S_null)]
    ELSE JsonFail

PutKey(d, key, val) == [t \in DOMAIN d \cup {key} |-> IF t = key THEN val ELSE d[t]]

FailedObject == [ok |-> FALSE, obj |-> EmptyMap, next |-> 0]

\* The members of an object from the key at k on: the mapping, and the
\* position after the closing brace.
RECURSIVE JsonMembers(_, _, _)

\* After a member: "}" ends the object, "," brings the next member.
JsonAfterMember(s, d, after) ==
    IF after > Len(s) THEN FailedObject
    ELSE IF s[after] = "}" THEN [ok |-> TRUE, obj |-> d, next |-> after + 1]
    ELSE IF s[after] = "," THEN JsonMembers(s, SkipSpace(s, after + 1), d)
    ELSE FailedObject

JsonAfterValue(s, d, name, val) ==
    IF ~val.ok THEN FailedObject
    ELSE JsonAfterMember(s, PutKey(d, name, val.val), SkipSpace(s, val.next))

JsonAfterColon(s, d, name, colon) ==
    IF ~(colon <= Len(s) /\ s[colon] = ":") THEN FailedObject
    ELSE JsonAfterValue(s, d, name, JsonValue(s, SkipSpace(s, colon + 1)))

JsonAfterKey(s, d, key) ==
    IF ~key.ok THEN FailedObject
    ELSE JsonAfterColon(s, d, key.val.v, SkipSpace(s, key.next))

JsonMembers(s, k, d) == JsonAfterKey(s, d, JsonString(s, k))

\* Nothing but whitespace may follow the object.
JsonEnd(s, body) ==
    IF body.ok /\ SkipSpace(s, body.next) > Len(s)
    THEN [ok |-> TRUE, obj |-> body.obj]
    ELSE [ok |-> FALSE, obj |-> EmptyMap]

JsonBody(s, first) ==
    IF first <= Len(s) /\ s[first] = "}"
    THEN JsonEnd(s, [ok |-> TRUE, obj |-> EmptyMap, next |-> first + 1])
    ELSE JsonEnd(s, JsonMembers(s, first, EmptyMap))

JsonObject(s, open) ==
    IF ~(open <= Len(s) /\ s[open] = "{") THEN [ok |-> FALSE, obj |-> EmptyMap]
    ELSE JsonBody(s, SkipSpace(s, open + 1))

JsonLoads(s) == JsonObject(s, SkipSpace(s, 1))

\* What the except clause leaves: an empty mapping.
Caught(r) ==
    IF r.ok THEN [raised |-> FALSE, map |-> r.obj]
    ELSE [raised |-> FALSE, map |-> EmptyMap]

Uncaught(r) ==
    IF r.ok THEN [raised |-> FALSE, map |-> r.obj]
    ELSE [raised |-> TRUE, map |-> EmptyMap]

\* The decoding without the except clause.
LoadDecisionsUncaught(s) == Uncaught(JsonLoads(s))

\* try: decisions = json.loads(decisions_str)
\* except json.JSONDecodeError: decisions = {}
LoadDecisions(s) == Caught(JsonLoads(s))

\* decisions.get(key, "")
GetDecision(d, key) == IF key \in DOMAIN d THEN d[key] ELSE StrV(<<>>)

\* An agreement computed as soon as one verdict is there.
AgreementOnEither(r, j) ==
    IF Truthy(r) \/ Truthy(j) THEN (IF r = j THEN S_Yes ELSE S_No) ELSE <<>>

\* if rita and jules: agreement = "Yes" if rita == jules else "No"
Agreement(r, j) ==
    IF Truthy(r) /\ Truthy(j) THEN (IF r = j THEN S_Yes ELSE S_No) ELSE <<>>

NoInclusion ==
    [raised |-> FALSE, bound |-> FALSE, map |-> EmptyMap,
     rita |-> StrV(<<>>), jules |-> StrV(<<>>), agreement |-> <<>>]

\* Lines 60-63, on the mapping decoded.
WithVerdicts(map, r, j) ==
    [raised |-> FALSE, bound |-> TRUE, map |-> map,
     rita |-> r, jules |-> j, agreement |-> Agreement(r, j)]

\* Lines 56-63, on what the decoding gave.
AfterLoad(loaded) ==
    IF loaded.raised
    THEN [raised |-> TRUE, bound |-> FALSE, map |-> EmptyMap,
          rita |-> StrV(<<>>), jules |-> StrV(<<>>), agreement |-> <<>>]
    ELSE WithVerdicts(loaded.map, GetDecision(loaded.map, S_Rita),
                      GetDecision(loaded.map, S_Jules))

\* Lines 54-63, on the match.
AfterMatch(m) ==
    IF ~m.found THEN NoInclusion
    ELSE AfterLoad(LoadDecisions(ReplaceArrow(m.group)))

\* Lines 53-63: the decision half of parse_n1.
DecodeInclusion(s) == AfterMatch(SearchInclusion(s))

\* str.split(",")
RECURSIVE Split(_, _)
Split(s, c) ==
    LET cut == FirstAt(s, c, 1)
    IN  IF cut = 0 THEN <<s>>
        ELSE <<SubSeq(s, 1, cut - 1)>> \o Split(SubSeq(s, cut + 1, Len(s)), c)

\* re.search(r"RAYYAN-EXCLUSION-REASONS:\s*([^|]*)", text): the leftmost
\* match; the group runs to the next "|" or the end of the text.
SearchReasons(s) ==
    LET hits == {k \in 1..Len(s) : OccursAt(s, S_EXC, k)}
    IN  IF hits = {} THEN [found |-> FALSE, group |-> <<>>]
        ELSE LET k == CHOOSE h \in hits : \A g \in hits : h <= g
                 from == SkipSpace(s, k + Len(S_EXC))
                 bar == FirstAt(s, "|", from)
             IN  [found |-> TRUE,
                  group |-> SubSeq(s, from, IF bar = 0 THEN Len(s) ELSE bar - 1)]

\* [r.strip() for r in group.split(",") if r.strip()]
StripNonEmpty(parts) ==
    LET stripped == [k \in 1..Len(parts) |-> Strip(parts[k])]
    IN  SelectSeq(stripped, LAMBDA r : r # <<>>)

\* Lines 66-67, on the match.
LabelsOf(m) == IF m.found THEN StripNonEmpty(Split(m.group, ",")) ELSE <<>>

\* Lines 65-67: the reason half of parse_n1.
DecodeReasons(s) == LabelsOf(SearchReasons(s))

\* text = " | ".join(n1_values)
JoinNotes(values) == Join(S_Bar, values)

\* return rita, jules, agreement, reasons
Result(inc, labels) ==
    [raised |-> inc.raised, rita |-> inc.rita, jules |-> inc.jules,
     agreement |-> inc.agreement, reasons |-> labels]

ParseText(t) == Result(DecodeInclusion(t), DecodeReasons(t))

\* parse_n1 as a whole, as build_dataframe calls it.
parse_n1(values) == ParseText(JoinNotes(values))

-----------------------------------------------------------------------------
(* build_dataframe                                                         *)

Range(f) == {f[x] : x \in DOMAIN f}

\* The keys of a row dict, in the order the dict literal gives them.
BaseColumns ==
    <<S_TI, S_T2, S_Y2, S_Y3, S_FirstAuthor, S_OtherAuthors, S_AB, S_DO, S_AN,
      S_RitaDecision, S_JulesDecision, S_Agreement>>
RowKeys == BaseColumns \o <<S_reasons>>

\* rec.get(key, [])
DictGet(rec, key) == IF key \in DOMAIN rec THEN rec[key] ELSE <<>>

\* first_author = authors[0] if authors else ""
FirstAuthor(authors) == IF authors # <<>> THEN authors[1] ELSE <<>>

\* Every author joined, the first one included.
AllAuthors(authors) == Join(S_Semi, authors)

\* other_authors = "; ".join(authors[1:])
OtherAuthors(authors) == Join(S_Semi, SliceFrom(authors, 1))

\* The dict appended to parsed_rows for one record.
BuildRow(rec, p) ==
    LET authors == DictGet(rec, S_AU)
    IN  [c \in Range(RowKeys) |->
            CASE c = S_FirstAuthor -> StrV(FirstAuthor(authors))
              [] c = S_OtherAuthors -> StrV(OtherAuthors(authors))
              [] c = S_RitaDecision -> p.rita
              [] c = S_JulesDecision -> p.jules
              [] c = S_Agreement -> StrV(p.agreement)
              [] c = S_reasons -> ListV(p.reasons)
              [] OTHER -> StrV(Join(S_Space, DictGet(rec, c)))]

\* pd.DataFrame(parsed_rows): the columns are the keys of the dicts; an
\* empty list gives a table with no columns.
DataFrame(rows) ==
    [columns |-> IF rows = <<>> THEN <<>> ELSE RowKeys, data |-> rows]

\* The labels of S by first appearance in the rows built (the order a list
\* would have kept).
RECURSIVE FirstSeen(_, _)
FirstSeen(labels, seen) ==
    IF labels = <<>> THEN <<>>
    ELSE IF Head(labels) \in seen THEN FirstSeen(Tail(labels), seen)
    ELSE <<Head(labels)>> \o FirstSeen(Tail(labels), seen \cup {Head(labels)})

RECURSIVE Flatten(_)
Flatten(lists) == IF lists = <<>> THEN <<>> ELSE Head(lists) \o Flatten(Tail(lists))

Unsorted(S) ==
    FirstSeen(Flatten([k \in 1..Len(parsed_rows) |-> parsed_rows[k][S_reasons].v]), {})

\* sorted(all_reasons)
RECURSIVE Sorted(_)
Sorted(S) ==
    IF S = {} THEN <<>>
    ELSE LET m == CHOOSE x \in S : \A y \in S \ {x} : StrLess(x, y)
         IN  <<m>> \o Sorted(S \ {m})

\* "Yes" if reason in r else "": r is a list (membership) or, once the
\* column has been overwritten, a str (substring).
YesIfIn(reason, r) ==
    IF (r.k = "list" /\ reason \in Range(r.v)) \/ (r.k = "str" /\ Contains(r.v, reason))
    THEN StrV(S_Yes) ELSE StrV(<<>>)

\* df[name] = cells: an existing column is overwritten in place, a new one
\* is appended.
SetColumn(d, name, cells) ==
    [columns |-> IF name \in Range(d.columns) THEN d.columns ELSE Append(d.columns, name),
     data |-> [k \in 1..Len(d.data) |->
                  [c \in DOMAIN d.data[k] \cup {name} |->
                      IF c = name THEN cells[k] ELSE d.data[k][c]]]]

\* df.drop(columns=name), for a column the table has
DropColumn(d, name) ==
    [columns |-> SelectSeq(d.columns, LAMBDA c : c # name),
     data |-> [k \in 1..Len(d.data) |->
                  [c \in DOMAIN d.data[k] \ {name} |-> d.data[k][c]]]]

NoFrame == [columns |-> <<>>, data |-> <<>>]

\* The body of "for rec in records", on the record and what parse_n1 gave.
RowBody(rec, p) ==
    IF p.raised
    THEN pc' = "raised" /\ UNCHANGED <<all_reasons, parsed_rows>>
    ELSE /\ all_reasons' = all_reasons \cup Range(p.reasons)
         /\ parsed_rows' = Append(parsed_rows, BuildRow(rec, p))
         /\ UNCHANGED pc

\* One iteration of "for rec in records".
RowStep ==
    /\ pc = "build"
    /\ Len(parsed_rows) < Len(records)
    /\ RowBody(records[Len(parsed_rows) + 1],
               parse_n1(DictGet(records[Len(parsed_rows) + 1], S_N1)))
    /\ UNCHANGED <<parseVars, df, todo, callVars, n1Vars>>

\* df = pd.DataFrame(parsed_rows), and sorted(all_reasons) is evaluated.
MakeFrame ==
    /\ pc = "build"
    /\ Len(parsed_rows) = Len(records)
    /\ df' = DataFrame(parsed_rows)
    /\ todo' = Sorted(all_reasons)
    /\ pc' = "columns"
    /\ UNCHANGED <<parseVars, all_reasons, parsed_rows, callVars, n1Vars>>

\* One iteration of "for reason in sorted(all_reasons)".
AddReasonColumn ==
    /\ pc = "columns"
    /\ todo # <<>>
    /\ LET reason == Head(todo)
       IN  df' = SetColumn(df, reason,
                    [k \in 1..Len(df.data) |-> YesIfIn(reason, df.data[k][S_reasons])])
    /\ todo' = Tail(todo)
    /\ UNCHANGED <<pc, parseVars, all_reasons, parsed_rows, callVars, n1Vars>>

\* return df.drop(columns="_reasons"): KeyError when there is no such column.
DropReasons ==
    /\ pc = "columns"
    /\ todo = <<>>
    /\ IF S_reasons \in Range(df.columns)
       THEN df' = DropColumn(df, S_reasons) /\ pc' = "done"
       ELSE pc' = "KeyError" /\ UNCHANGED df
    /\ UNCHANGED <<parseVars, all_reasons, parsed_rows, todo, callVars, n1Vars>>

\* The same record list, reordered by perm, is handed to a second call.
Permute(seq, p) == [k \in 1..Len(seq) |-> seq[p[k]]]

SecondCall ==
    /\ pc \in {"done", "KeyError"}
    /\ call = 1
    /\ call' = 2
    /\ df1' = [outcome |-> pc, table |-> df]
    /\ records' = Permute(given, perm)
    /\ all_reasons' = {}
    /\ parsed_rows' = <<>>
    /\ df' = NoFrame
    /\ todo' = <<>>
    /\ pc' = "build"
    /\ UNCHANGED <<consumed, record, given, perm, n1Vars>>

-----------------------------------------------------------------------------
(* parse_n1, step by step.                                                 *)

NoDecisions == [bound |-> FALSE, map |-> EmptyMap]

\* text = " | ".join(n1_values)
N1Join ==
    /\ pc = "n1_start"
    /\ text' = JoinNotes(n1_values)
    /\ pc' = "n1_inclusion"
    /\ UNCHANGED <<parseVars, buildVars, callVars, n1_values, gen, decisions,
                   rita, jules, agreement, reasons>>

InclusionDone(inc) ==
    /\ pc' = IF inc.raised THEN "n1_raised" ELSE "n1_reasons"
    /\ decisions' = [bound |-> inc.bound, map |-> inc.map]
    /\ rita' = inc.rita
    /\ jules' = inc.jules
    /\ agreement' = inc.agreement

\* Lines 53-63.
N1Inclusion ==
    /\ pc = "n1_inclusion"
    /\ InclusionDone(DecodeInclusion(text))
    /\ UNCHANGED <<parseVars, buildVars, callVars, n1_values, gen, text, reasons>>

\* Lines 65-69.
N1Reasons ==
    /\ pc = "n1_reasons"
    /\ reasons' = DecodeReasons(text)
    /\ pc' = "n1_done"
    /\ UNCHANGED <<parseVars, buildVars, callVars, n1_values, gen, text,
                   decisions, rita, jules, agreement>>

-----------------------------------------------------------------------------
(* The note values parse_n1 is run on.                                     *)

SeqsUpTo(S, n) == UNION {[1..m -> S] : m \in 0..n}

Quoted(s) == <<"\"">> \o s \o <<"\"">>

Keys == {S_Rita, S_Jules}
Verdicts == {StrV(S_Yes), StrV(S_No), StrV(<<>>), NoneV}
Entries == SeqsUpTo([key : Keys, val : Verdicts], MaxEntries)

\* How a payload is written: "json" as the screening tool exports it,
\* "tight" without optional blanks, "colon" with ":" already in place,
\* "bare" with unquoted names, "nocomma" without commas, "unclosed" without
\* the closing brace.
Styles == {"json", "tight", "colon", "bare", "nocomma", "unclosed"}

RenderEntry(e, style) ==
    (IF style = "bare" THEN e.key ELSE Quoted(e.key))
    \o (IF style = "colon" THEN S_Colon ELSE S_Arrow)
    \o (IF e.val.k = "None" THEN S_null ELSE Quoted(e.val.v))

Payload(style, entries) ==
    <<"{">>
    \o Join(IF style = "tight" THEN <<",">>
            ELSE IF style = "nocomma" THEN <<" ">> ELSE <<",", " ">>,
            [k \in 1..Len(entries) |-> RenderEntry(entries[k], style)])
    \o (IF style = "unclosed" THEN <<>> ELSE <<"}">>)

InclusionNote(style, entries) ==
    S_INC \o (IF style = "tight" THEN <<>> ELSE S_Space) \o Payload(style, entries)

\* Reason payloads as written, with the labels they stand for.
ReasonTexts ==
    << [written |-> <<>>, labels |-> <<>>],
       [written |-> <<"D", "u", "p", "l", "i", "c", "a", "t", "e", ",", " ",
                      "W", "r", "o", "n", "g", " ", "p", "o", "p", "u", "l", "a",
                      "t", "i", "o", "n">>,
        labels |-> << <<"D", "u", "p", "l", "i", "c", "a", "t", "e">>,
                      <<"W", "r", "o", "n", "g", " ", "p", "o", "p", "u", "l", "a",
                        "t", "i", "o", "n">> >>],
       [written |-> <<" ", "b", " ", ",", ",", " ", "a", " ">>,
        labels |-> << <<"b">>, <<"a">> >>] >>

ExclusionNote(rt) == S_EXC \o S_Space \o ReasonTexts[rt].written

PlainNote == <<"s", "e", "e", " ", "n", "o", "t", "e", "s">>
BrokenInclusion == S_INC \o <<" ", "{", "o", "o", "p", "s", "}">>

ShapesWithBoth == {"inc | exc", "inc, exc", "exc, inc", "note, inc, exc"}
ShapesWithInclusion == ShapesWithBoth \cup {"inc", "broken, inc"}
ShapesWithReasons == ShapesWithBoth \cup {"exc"}
Shapes == ShapesWithInclusion \cup ShapesWithReasons \cup {"none", "note"}

Gens ==
    { g \in [shape : Shapes, style : Styles, entries : Entries,
             rt : 1..Len(ReasonTexts)] :
        /\ g.shape \notin ShapesWithInclusion => g.style = "json" /\ g.entries = <<>>
        /\ g.shape \notin ShapesWithReasons => g.rt = 1 }

Render(g) ==
    LET inc == InclusionNote(g.style, g.entries)
        exc == ExclusionNote(g.rt)
    IN  CASE g.shape = "none" -> <<>>
          [] g.shape = "note" -> <<PlainNote>>
          [] g.shape = "inc" -> <<inc>>
          [] g.shape = "exc" -> <<exc>>
          [] g.shape = "inc | exc" -> <<inc \o S_Bar \o exc>>
          [] g.shape = "inc, exc" -> <<inc, exc>>
          [] g.shape = "exc, inc" -> <<exc, inc>>
          [] g.shape = "note, inc, exc" -> <<PlainNote, inc, exc>>
          [] g.shape = "broken, inc" -> <<BrokenInclusion, inc>>

-----------------------------------------------------------------------------
(* Specifications.                                                         *)

IdleParse == consumed = <<>> /\ record = EmptyRecord
IdleBuild == all_reasons = {} /\ parsed_rows = <<>> /\ df = NoFrame /\ todo = <<>>
IdleCall == call = 1 /\ perm = <<>> /\ df1 = [outcome |-> "none", table |-> NoFrame]
IdleN1 ==
    /\ n1_values = <<>>
    /\ gen = [shape |-> "none", style |-> "json", entries |-> <<>>, rt |-> 1]
    /\ text = <<>>
    /\ decisions = NoDecisions
    /\ rita = StrV(<<>>)
    /\ jules = StrV(<<>>)
    /\ agreement = <<>>
    /\ reasons = <<>>

\* main: a file is read line by line, then the table is built.
Init ==
    /\ pc = "read"
    /\ records = <<>>
    /\ given = <<>>
    /\ IdleParse /\ IdleBuild /\ IdleCall /\ IdleN1

Next ==
    \/ \E raw \in RawLines : ReadLine(raw)
    \/ EndOfFile
    \/ RowStep
    \/ MakeFrame
    \/ AddReasonColumn
    \/ DropReasons

Spec == Init /\ [][Next]_vars

\* parse_n1 on generated note values.
InitN1 ==
    /\ pc = "n1_start"
    /\ records = <<>>
    /\ given = <<>>
    /\ IdleParse /\ IdleBuild /\ IdleCall
    /\ gen \in Gens
    /\ n1_values = Render(gen)
    /\ text = <<>>
    /\ decisions = NoDecisions
    /\ rita = StrV(<<>>)
    /\ jules = StrV(<<>>)
    /\ agreement = <<>>
    /\ reasons = <<>>

NextN1 == N1Join \/ N1Inclusion \/ N1Reasons

SpecN1 == InitN1 /\ [][NextN1]_vars

\* build_dataframe on generated record lists, called a second time on a
\* permutation of the same list.
LabelNote(labels) == S_EXC \o S_Space \o Join(<<",", " ">>, labels)

L_Duplicate == <<"D", "u", "p", "l", "i", "c", "a", "t", "e">>
L_Wrong == <<"W", "r", "o", "n", "g", " ", "p", "o", "p", "u", "l", "a", "t", "i", "o", "n">>
L_e == <<"e">>

NotedRecord(title, labels) ==
    [t \in {S_TI, S_N1} |-> IF t = S_TI THEN <<title>> ELSE <<LabelNote(labels)>>]

RecordSamples ==
    { [t \in {S_TI} |-> << <<"A">> >>],
      NotedRecord(<<"B">>, <<L_Wrong, L_Duplicate>>),
      NotedRecord(<<"C">>, <<S_TI>>),
      NotedRecord(<<"D">>, <<S_reasons>>),
      NotedRecord(<<"E">>, <<L_e>>) }

Orderings(n) == {p \in [1..n -> 1..n] : \A a, b \in 1..n : p[a] = p[b] => a = b}

InitBuild ==
    /\ pc = "build"
    /\ records \in SeqsUpTo(RecordSamples, MaxRecords)
    /\ given = records
    /\ perm \in Orderings(Len(records))
    /\ call = 1
    /\ df1 = [outcome |-> "none", table |-> NoFrame]
    /\ IdleParse /\ IdleBuild /\ IdleN1

NextBuild ==
    \/ RowStep
    \/ MakeFrame
    \/ AddReasonColumn
    \/ DropReasons
    \/ SecondCall

SpecBuild == InitBuild /\ [][NextBuild]_vars

-----------------------------------------------------------------------------
(* What the file read so far says, computed from the lines themselves.     *)

Contents(raws) == [k \in 1..Len(raws) |-> RStripNewline(raws[k])]

\* The delimiter region holds one hyphen and otherwise only blanks.
DelimiterOk(line) ==
    LET region == Slice(line, 2, 6)
        marks == SelectSeq(region, LAMBDA c : ~IsSpace(c))
    IN  marks = <<"-">>

\* The lines before each end-marker line, one group per end marker.
RECURSIVE ClosedEntries(_)
ClosedEntries(lines) ==
    LET marks == {k \in 1..Len(lines) : StartsWith(lines[k], S_ER)}
    IN  IF marks = {} THEN <<>>
        ELSE LET m == CHOOSE k \in marks : \A j \in marks : k <= j
             IN  <<SubSeq(lines, 1, m - 1)>> \o ClosedEntries(SubSeq(lines, m + 1, Len(lines)))

FieldLines(entry) == SelectSeq(entry, LAMBDA l : l # <<>> /\ DelimiterOk(l))

ValuesOf(entry, tag) ==
    LET tagged == SelectSeq(FieldLines(entry), LAMBDA l : Slice(l, 0, 2) = tag)
    IN  [k \in 1..Len(tagged) |-> Strip(SliceFrom(tagged[k], 6))]

FieldsOf(entry) ==
    LET fl == FieldLines(entry)
    IN  [t \in {Slice(fl[k], 0, 2) : k \in 1..Len(fl)} |->
            LET tagged == SelectSeq(fl, LAMBDA l : Slice(l, 0, 2) = t)
            IN  [k \in 1..Len(tagged) |-> Strip(SliceFrom(tagged[k], 6))]]

\* The closed entries that hold at least one field, in input order.
SealedEntries(raws) ==
    SelectSeq(ClosedEntries(Contents(raws)), LAMBDA e : FieldLines(e) # <<>>)

ExpectedRecords(raws) ==
    LET sealed == SealedEntries(raws)
    IN  [k \in 1..Len(sealed) |-> FieldsOf(sealed[k])]

\* parts joined by sep, built from the right end.
RECURSIVE JoinedBy(_, _)
JoinedBy(sep, parts) ==
    IF parts = <<>> THEN <<>>
    ELSE LET front == SubSeq(parts, 1, Len(parts) - 1)
         IN  JoinedBy(sep, front) \o (IF front = <<>> THEN <<>> ELSE sep)
             \o parts[Len(parts)]

-----------------------------------------------------------------------------
(* Claims about parse_ris_file and main (specification Spec).              *)

\* C1: the records parse_ris_file returns are exactly the entries closed by
\* an "ER  -" line (those holding a field), in input order; fields after
\* the last end marker are in no record; the table has one row per record.
C1_SealedOnly ==
    /\ pc # "read" => given = ExpectedRecords(consumed)
    /\ pc = "done" => Len(df.data) = Len(given)

\* A file with a closed entry and an unterminated trailing one has been
\* turned into a table.
C1_Witness ==
    /\ pc = "done"
    /\ Len(given) >= 1
    /\ record # EmptyRecord

\* C2 as stated: for an input without end-marker lines build_dataframe
\* completes with zero rows and exactly the base columns.
C2_EmptyTable ==
    (/\ pc \in {"done", "KeyError"}
     /\ \A k \in 1..Len(consumed) : ~StartsWith(Contents(consumed)[k], S_ER))
    => (pc = "done" /\ df.data = <<>> /\ df.columns = BaseColumns)

IgnoredLine(raw) ==
    LET line == RStripNewline(raw)
    IN  line = <<>> \/ (~StartsWith(line, S_ER) /\ ~DelimiterOk(line))

WellFormedLine(raw) ==
    LET line == RStripNewline(raw)
    IN  line # <<>> /\ ~StartsWith(line, S_ER) /\ DelimiterOk(line)

\* C8: reading a blank line, or a line that is no end marker and whose
\* positions 2-6 do not trim to a hyphen, changes neither the accumulator
\* nor the emitted records and raises nothing; a record built from one
\* well-formed and one such line holds only the well-formed field.
C8_IgnoredLines ==
    /\ [][(pc = "read" /\ Len(consumed') = Len(consumed) + 1
              /\ IgnoredLine(consumed'[Len(consumed')]))
          => (record' = record /\ records' = records /\ pc' = "read")]_vars
    /\ [](\A a, b \in RawLines :
            (/\ pc = "read"
             /\ consumed \in {<<a, b>>, <<b, a>>}
             /\ WellFormedLine(a)
             /\ IgnoredLine(b))
            => record = FieldsOf(<<RStripNewline(a)>>))

\* A record made of a title line and a line with a broken delimiter has
\* been emitted with the title only.
C8_Witness ==
    /\ Len(consumed) = 3
    /\ IgnoredLine(consumed[2])
    /\ RStripNewline(consumed[2]) # <<>>
    /\ records = << [t \in {S_TI} |-> << <<"A">> >>] >>

\* C9: the row's first-author field is the first AU value of the entry in
\* input order (empty without AU values) and its other-authors field is the
\* remaining AU values in input order joined by "; " (empty when fewer than
\* two); the table shows the same unless a reason label takes the column.
C9_Authors ==
    parsed_rows # <<>> =>
    LET sealed == SealedEntries(consumed)
    IN  \A k \in 1..Len(parsed_rows) :
        LET aus == ValuesOf(sealed[k], S_AU)
            first == StrV(IF aus = <<>> THEN <<>> ELSE aus[1])
            others == StrV(JoinedBy(S_Semi, SubSeq(aus, 2, Len(aus))))
        IN  /\ parsed_rows[k][S_FirstAuthor] = first
            /\ parsed_rows[k][S_OtherAuthors] = others
            /\ (pc = "done" /\ all_reasons \cap {S_FirstAuthor, S_OtherAuthors} = {})
               => (df.data[k][S_FirstAuthor] = first /\ df.data[k][S_OtherAuthors] = others)

\* A record with three AU values has its row in the table.
C9_Witness ==
    /\ pc = "done"
    /\ Len(df.data) = 1
    /\ df.data[1][S_FirstAuthor] = StrV(<<"X">>)
    /\ df.data[1][S_OtherAuthors] = StrV(<<"Y", ";", " ", "X">>)

-----------------------------------------------------------------------------
(* Claims about parse_n1 (specification SpecN1).                           *)

\* The generated payload is the first RAYYAN-INCLUSION payload of the text.
PayloadIsFirst == gen.shape \in ShapesWithInclusion \ {"broken, inc"}

Entry(key, verdict) == [key |-> key, val |-> StrV(verdict)]

\* C3 as stated: with the names unquoted, {Rita=>"Yes", Jules=>"Yes"} gives
\* both verdicts "Yes" and agreement "Yes", {Rita=>"Yes", Jules=>"No"} gives
\* agreement "No", and one name alone gives an empty agreement.
C3_Unquoted ==
    (pc = "n1_done" /\ PayloadIsFirst /\ gen.style = "bare") =>
        /\ gen.entries = <<Entry(S_Rita, S_Yes), Entry(S_Jules, S_Yes)>>
           => (rita = StrV(S_Yes) /\ jules = StrV(S_Yes) /\ agreement = S_Yes)
        /\ gen.entries = <<Entry(S_Rita, S_Yes), Entry(S_Jules, S_No)>>
           => agreement = S_No
        /\ Len(gen.entries) = 1 => agreement = <<>>

\* C3, amended: with the names written as JSON strings, as the first
\* RAYYAN-INCLUSION payload of the notes, {"Rita"=>"Yes", "Jules"=>"Yes"}
\* gives both verdicts "Yes" and agreement "Yes", {"Rita"=>"Yes",
\* "Jules"=>"No"} gives agreement "No", and one name alone gives an empty
\* agreement.
C3_Quoted ==
    (pc = "n1_done" /\ PayloadIsFirst /\ gen.style = "json") =>
        /\ gen.entries = <<Entry(S_Rita, S_Yes), Entry(S_Jules, S_Yes)>>
           => (rita = StrV(S_Yes) /\ jules = StrV(S_Yes) /\ agreement = S_Yes)
        /\ gen.entries = <<Entry(S_Rita, S_Yes), Entry(S_Jules, S_No)>>
           => agreement = S_No
        /\ Len(gen.entries) = 1 => agreement = <<>>

\* The payload {"Rita"=>"Yes", "Jules"=>"Yes"} has been decoded, with the
\* reasons following it in the same note.
C3_Witness ==
    /\ pc = "n1_done"
    /\ gen.shape = "inc | exc"
    /\ gen.style = "json"
    /\ gen.entries = <<Entry(S_Rita, S_Yes), Entry(S_Jules, S_Yes)>>
    /\ agreement = S_Yes

Present(key) ==
    /\ key \in DOMAIN decisions.map
    /\ decisions.map[key].k = "str"
    /\ decisions.map[key].v # <<>>

\* C6: for a decoded decision mapping the agreement is empty when the
\* verdict under Rita or under Jules is empty or missing; with both present
\* it is "Yes" when the two verdicts are equal and "No" otherwise.
C6_Agreement ==
    (pc = "n1_done" /\ decisions.bound) =>
        agreement = IF ~Present(S_Rita) \/ ~Present(S_Jules) THEN <<>>
                    ELSE IF decisions.map[S_Rita].v = decisions.map[S_Jules].v
                    THEN S_Yes ELSE S_No

\* Two different verdicts have been decoded.
C6_Witness ==
    /\ pc = "n1_done"
    /\ decisions.bound
    /\ Present(S_Rita) /\ Present(S_Jules)
    /\ agreement = S_No

\* The first inclusion payload does not decode: it is not JSON after the
\* normalization, or it has no closing brace.
PayloadMalformed ==
    \/ gen.shape = "broken, inc"
    \/ /\ gen.shape \in ShapesWithInclusion
       /\ \/ gen.style = "bare" /\ gen.entries # <<>>
          \/ gen.style = "nocomma" /\ Len(gen.entries) >= 2
          \/ gen.style = "unclosed"

\* The note values with the inclusion payloads taken out.
WithoutInclusion(g) ==
    CASE g.shape \in {"none", "inc", "broken, inc"} -> <<>>
      [] g.shape = "note" -> <<PlainNote>>
      [] g.shape \in {"exc", "inc | exc", "inc, exc", "exc, inc"} -> <<ExclusionNote(g.rt)>>
      [] g.shape = "note, inc, exc" -> <<PlainNote, ExclusionNote(g.rt)>>

\* C7: parse_n1 never raises; a malformed decision payload gives empty
\* verdicts and agreement, and the reasons are then what they are without
\* the decision payload; an absent payload leaves its outputs empty.
C7_Tolerant ==
    /\ pc # "n1_raised"
    /\ pc = "n1_done" =>
        /\ (PayloadMalformed \/ gen.shape \notin ShapesWithInclusion)
           => (rita = StrV(<<>>) /\ jules = StrV(<<>>) /\ agreement = <<>>)
        /\ PayloadMalformed
           => /\ reasons = parse_n1(WithoutInclusion(gen)).reasons
              /\ reasons = IF gen.shape \in ShapesWithReasons
                           THEN ReasonTexts[gen.rt].labels ELSE <<>>
        /\ gen.shape \notin ShapesWithReasons => reasons = <<>>

\* A payload without commas came with two reasons, and the reasons were
\* decoded.
C7_Witness ==
    /\ pc = "n1_done"
    /\ gen.shape = "inc | exc"
    /\ gen.style = "nocomma"
    /\ Len(gen.entries) = 2
    /\ Len(reasons) = 2

-----------------------------------------------------------------------------
(* Claims about build_dataframe (specification SpecBuild).                 *)

ReasonSet(k) == Range(parsed_rows[k][S_reasons].v)
ReasonUnion == UNION {ReasonSet(k) : k \in 1..Len(parsed_rows)}

\* C4 as stated: for a non-empty record list the table has, after the
\* twelve base columns, one column per label of the union of the records'
\* reason sets, in lexicographic order, and a cell is "Yes" exactly when the
\* label is in the row's own reason set, and blank otherwise.
C4_ReasonColumns ==
    (pc = "done" /\ records # <<>>) =>
        LET added == SubSeq(df.columns, Len(BaseColumns) + 1, Len(df.columns))
        IN  /\ SubSeq(df.columns, 1, Len(BaseColumns)) = BaseColumns
            /\ Range(added) = ReasonUnion
            /\ \A a, b \in 1..Len(added) : a < b => StrLess(added[a], added[b])
            /\ \A k \in 1..Len(df.data) : \A label \in ReasonUnion :
                  /\ label \in DOMAIN df.data[k]
                  /\ df.data[k][label] =
                        IF label \in ReasonSet(k) THEN StrV(S_Yes) ELSE StrV(<<>>)

\* C5: a record list and a permutation of it give the same column headers
\* in the same order (or the same failure), and the rows of the second table
\* are the rows of the first in the permuted order.
C5_PermutationInvariant ==
    (call = 2 /\ pc \in {"done", "KeyError"}) =>
        /\ df1.outcome = pc
        /\ df.columns = df1.table.columns
        /\ df.data = Permute(df1.table.data, perm)

\* Three records were reordered, reason columns were added, and the rows
\* came out in another order.
C5_Witness ==
    /\ call = 2
    /\ pc = "done"
    /\ Len(records) = 3
    /\ Len(df.columns) >= Len(BaseColumns) + 2
    /\ df.data # df1.table.data

\* C10 as stated: whatever the reason labels are, adding the reason columns
\* leaves every base-column value as computed from the record, and the
\* table has twelve plus the number of distinct labels columns.
C10_BaseColumnsKept ==
    (pc = "done" /\ records # <<>>) =>
        /\ \A k \in 1..Len(df.data) : \A c \in Range(BaseColumns) :
              c \in DOMAIN df.data[k] /\ df.data[k][c] = parsed_rows[k][c]
        /\ Len(df.columns) = Len(BaseColumns) + Cardinality(all_reasons)

=============================================================================
